---- MODULE Spec2Model ----
(***************************************************************************)
(* Model of the level resolver (converter/level_detector.py) and of the    *)
(* quality validation pipeline (converter/quality_validator.py).           *)
(*                                                                         *)
(* Python values are tagged records [t, i, s]: t is the type tag, i the    *)
(* numeric payload (floats are kept in tenths), s the characters of a      *)
(* string.  A call that can raise yields a record whose exc field names    *)
(* the exception ("none" when the call returns).                           *)
(***************************************************************************)
EXTENDS Integers, Sequences, FiniteSets, TLC

\* ------------------------------------------------------------------ bounds
MaxFeatures == 2        \* longest class.featuresByLevel list
MaxItems == 2           \* longest converted items list
MaxCount == 1           \* largest count an external collaborator reports
MaxTime == 2            \* last clock reading
MaxTotal == 11          \* largest total_items of a hand-built Metrics
MaxCounter == 2         \* largest other counter of a hand-built Metrics
MaxLen == 3             \* longest string handed to normalize_level_format
MaxStale == 1           \* most Findings left over when a run starts without start_validation

\* ------------------------------------------------------- Python values
Absent == [t |-> "absent", i |-> 0, s |-> <<>>]
PyNone == [t |-> "none", i |-> 0, s |-> <<>>]
PyInf == [t |-> "inf", i |-> 0, s |-> <<>>]
PyInt(n) == [t |-> "int", i |-> n, s |-> <<>>]
PyFloat(tenths) == [t |-> "float", i |-> tenths, s |-> <<>>]
PyStr(chars) == [t |-> "str", i |-> 0, s |-> chars]

Ok(n) == [exc |-> "none", v |-> n]
Raise(e) == [exc |-> e, v |-> 0]

\* characters in code point order
Alphabet == <<" ", "-", "0", "1", "2", "3", "4", "5", "6", "7", "8", "9",
              "L", "a", "b", "c", "e", "h", "l", "t", "v">>
Digits == {"0", "1", "2", "3", "4", "5", "6", "7", "8", "9"}
CharCode(c) == CHOOSE k \in 1..Len(Alphabet) : Alphabet[k] = c
DigitVal(c) == CharCode(c) - 3

RECURSIVE LStrip(_)
LStrip(s) == IF s # <<>> /\ Head(s) = " " THEN LStrip(Tail(s)) ELSE s
RECURSIVE RStrip(_)
RStrip(s) == IF s # <<>> /\ s[Len(s)] = " " THEN RStrip(SubSeq(s, 1, Len(s) - 1)) ELSE s
RECURSIVE DigitsValue(_, _)
DigitsValue(s, acc) == IF s = <<>> THEN acc ELSE DigitsValue(Tail(s), 10 * acc + DigitVal(Head(s)))
AllDigits(s) == s # <<>> /\ \A k \in 1..Len(s) : s[k] \in Digits

\* the digits after the sign
IntOfDigits(neg, digs) ==
    IF AllDigits(digs)
      THEN Ok(IF neg THEN 0 - DigitsValue(digs, 0) ELSE DigitsValue(digs, 0))
      ELSE Raise("ValueError")
IntOfBody(body) ==
    IF body # <<>> /\ Head(body) = "-" THEN IntOfDigits(TRUE, Tail(body))
    ELSE IntOfDigits(FALSE, body)

\* int(str): surrounding blanks and one sign are accepted, everything else
\* must be decimal digits
IntOfStr(chars) == IntOfBody(RStrip(LStrip(chars)))

\* float -> int truncates toward zero
Trunc(tenths) == IF tenths >= 0 THEN tenths \div 10 ELSE 0 - ((0 - tenths) \div 10)

\* the builtin int(value)
PyIntOf(val) ==
    CASE val.t = "int" -> Ok(val.i)
      [] val.t = "float" -> Ok(Trunc(val.i))
      [] val.t = "inf" -> Raise("OverflowError")
      [] val.t = "str" -> IntOfStr(val.s)
      [] OTHER -> Raise("TypeError")

\* s1 > s2 on strings, by code point
RECURSIVE StrGreater(_, _)
StrGreater(s1, s2) ==
    IF s1 = <<>> THEN FALSE
    ELSE IF s2 = <<>> THEN TRUE
    ELSE IF Head(s1) # Head(s2) THEN CharCode(Head(s1)) > CharCode(Head(s2))
    ELSE StrGreater(Tail(s1), Tail(s2))

IsNumber(val) == val.t \in {"int", "float", "inf"}
Tenths(val) == IF val.t = "int" THEN 10 * val.i ELSE val.i

\* a > b as the builtin max evaluates it: exc is "TypeError" for operands
\* that do not compare, v is 1 when a > b
PyGreater(a, b) ==
    IF IsNumber(a) /\ IsNumber(b)
      THEN IF a.t = "inf" THEN Ok(IF b.t = "inf" THEN 0 ELSE 1)
           ELSE IF b.t = "inf" THEN Ok(0)
           ELSE Ok(IF Tenths(a) > Tenths(b) THEN 1 ELSE 0)
    ELSE IF a.t = "str" /\ b.t = "str" THEN Ok(IF StrGreater(a.s, b.s) THEN 1 ELSE 0)
    ELSE Raise("TypeError")

\* ------------------------------------------------------------ records
\* character_data: [level, class]; class: [kind, level, fbl];
\* fbl (featuresByLevel): [kind, elems]; a feature: [kind, level]
NoFeatures == [kind |-> "absent", elems |-> <<>>]
EmptyDict == [kind |-> "dict", level |-> Absent, fbl |-> NoFeatures]
Features(elems) == [kind |-> "list", elems |-> elems]
Feature(level) == [kind |-> "dict", level |-> level]
ClassDict(level, fbl) == [kind |-> "dict", level |-> level, fbl |-> fbl]
NonDict(kind) == [kind |-> kind, level |-> Absent, fbl |-> NoFeatures]
Record(level, class) == [level |-> level, class |-> class]

\* character_data.get('class', {})
ClassGet(character_data) ==
    IF character_data.class.kind = "absent" THEN EmptyDict ELSE character_data.class

\* 'level' in class_data: None is not a container, a string without the
\* word does not contain it
HasLevel(class_data) ==
    CASE class_data.kind = "dict" -> Ok(IF class_data.level # Absent THEN 1 ELSE 0)
      [] class_data.kind = "str" -> Ok(0)
      [] OTHER -> Raise("TypeError")

\* class_data.get('featuresByLevel', [])
FeaturesGet(class_data) ==
    IF class_data.kind = "dict" THEN [exc |-> "none", fbl |-> class_data.fbl]
    ELSE [exc |-> "AttributeError", fbl |-> NoFeatures]

\* truth value of features_by_level
Truthy(fbl) == (fbl.kind = "list" /\ fbl.elems # <<>>) \/ fbl.kind = "int"

\* feature.get('level', 1)
FeatureLevel(feature) ==
    IF feature.kind # "dict" THEN [exc |-> "AttributeError", val |-> PyNone]
    ELSE [exc |-> "none", val |-> IF feature.level = Absent THEN PyInt(1) ELSE feature.level]

\* one step of max(): the next element against the best so far
MaxStep(next, best) ==
    IF next.exc # "none" THEN [exc |-> next.exc, val |-> PyNone]
    ELSE IF PyGreater(next.val, best).exc # "none" THEN [exc |-> "TypeError", val |-> PyNone]
    ELSE [exc |-> "none", val |-> IF PyGreater(next.val, best).v = 1 THEN next.val ELSE best]

\* max(feature.get('level', 1) for feature in features_by_level): the
\* elements are read and compared one by one, the first exception wins
RECURSIVE MaxFold(_, _, _)
MaxFold(elems, k, acc) ==
    IF acc.exc # "none" \/ k > Len(elems) THEN acc
    ELSE MaxFold(elems, k + 1, MaxStep(FeatureLevel(elems[k]), acc.val))

FeaturesMax(fbl) ==
    IF fbl.kind # "list" THEN [exc |-> "TypeError", val |-> PyNone]
    ELSE MaxFold(fbl.elems, 2, FeatureLevel(fbl.elems[1]))

\* the exceptions the resolver's handlers catch
Caught == {"ValueError", "TypeError"}

NotFound == [exc |-> "none", found |-> 0, v |-> 0]

\* except (ValueError, TypeError) around a conversion r: found = 1 when it
\* gave a value, any other exception goes on
Catch(r) ==
    IF r.exc = "none" THEN [exc |-> "none", found |-> 1, v |-> r.v]
    ELSE IF r.exc \in Caught THEN NotFound
    ELSE [exc |-> r.exc, found |-> 0, v |-> 0]

\* try: int(value) except (ValueError, TypeError)
TryInt(val) == Catch(PyIntOf(val))

\* try: int(max(...)) except (ValueError, TypeError)
CatchMax(m) == IF m.exc = "none" THEN TryInt(m.val) ELSE Catch(m)
TryFeatures(fbl) == CatchMax(FeaturesMax(fbl))

\* ------------------------------------------------------------ resolver
Max(a, b) == IF a >= b THEN a ELSE b
Min(a, b) == IF a <= b THEN a ELSE b

\* max(1, min(20, level))
Clamp(level) == Max(1, Min(20, level))

\* Priority 1: top-level character field
TopSource(character_data) ==
    IF character_data.level # Absent THEN TryInt(character_data.level) ELSE NotFound

\* Priority 2: class-level field
ClassLevel(class_data, has) ==
    IF has.exc # "none" THEN [exc |-> has.exc, found |-> 0, v |-> 0]
    ELSE IF has.v = 1 THEN TryInt(class_data.level)
    ELSE NotFound
ClassSource(character_data) ==
    ClassLevel(ClassGet(character_data), HasLevel(ClassGet(character_data)))

\* Priority 3: calculate from features
FeaturesLevel(got) ==
    IF got.exc # "none" THEN [exc |-> got.exc, found |-> 0, v |-> 0]
    ELSE IF Truthy(got.fbl) THEN TryFeatures(got.fbl)
    ELSE NotFound
FeaturesSource(character_data) == FeaturesLevel(FeaturesGet(ClassGet(character_data)))

\* mutant: the features are preferred to the class-level field
FirstSourceFeaturesFirst(p1, p2, p3) ==
    IF p1.exc # "none" THEN Raise(p1.exc)
    ELSE IF p1.found = 1 THEN Ok(Clamp(p1.v))
    ELSE IF p3.exc # "none" THEN Raise(p3.exc)
    ELSE IF p3.found = 1 THEN Ok(Clamp(p3.v))
    ELSE IF p2.exc # "none" THEN Raise(p2.exc)
    ELSE IF p2.found = 1 THEN Ok(Clamp(p2.v))
    ELSE Ok(1)

\* the first source that gave a value wins; a later source is read only
\* when the earlier ones gave none
FirstSource(p1, p2, p3) ==
    IF p1.exc # "none" THEN Raise(p1.exc)
    ELSE IF p1.found = 1 THEN Ok(Clamp(p1.v))
    ELSE IF p2.exc # "none" THEN Raise(p2.exc)
    ELSE IF p2.found = 1 THEN Ok(Clamp(p2.v))
    ELSE IF p3.exc # "none" THEN Raise(p3.exc)
    ELSE IF p3.found = 1 THEN Ok(Clamp(p3.v))
    ELSE Ok(1)

\* LevelDetector.detect_level
detect_level(character_data) ==
    FirstSource(TopSource(character_data), ClassSource(character_data),
                FeaturesSource(character_data))

Entry(source, p) == IF p.found = 1 THEN <<[source |-> source, level |-> p.v]>> ELSE <<>>

\* levels_found of validate_level_consistency, in insertion order; every
\* source is read, whatever the earlier ones gave
AllSources(top, cls, fts) ==
    [exc |-> IF top.exc # "none" THEN top.exc
             ELSE IF cls.exc # "none" THEN cls.exc
             ELSE fts.exc,
     found |-> Entry("character.level", top) \o Entry("class.level", cls)
               \o Entry("featuresByLevel", fts)]
LevelsFound(character_data) ==
    AllSources(TopSource(character_data), ClassSource(character_data),
               FeaturesSource(character_data))

\* set(levels_found.values())
UniqueLevels(found) == {found[k].level : k \in 1..Len(found)}

\* mutant: the sources are compared after clamping
IsConsistentClamped(found) ==
    Cardinality({Clamp(found[k].level) : k \in 1..Len(found)}) <= 1

\* len(unique_levels) <= 1
IsConsistent(found) == Cardinality(UniqueLevels(found)) <= 1

\* the sources whose level differs from the detected one
RECURSIVE Inconsistencies(_, _, _)
Inconsistencies(found, k, detected) ==
    IF k > Len(found) THEN <<>>
    ELSE (IF found[k].level # detected
            THEN <<[source |-> found[k].source, level |-> found[k].level,
                    difference |-> found[k].level - detected]>>
            ELSE <<>>) \o Inconsistencies(found, k + 1, detected)

ConsistencyRaise(e) ==
    [exc |-> e, levels_found |-> <<>>, detected_level |-> 0,
     is_consistent |-> FALSE, inconsistencies |-> <<>>]

ConsistencyResult(lf, detected) ==
    IF lf.exc # "none" THEN ConsistencyRaise(lf.exc)
    ELSE IF detected.exc # "none" THEN ConsistencyRaise(detected.exc)
    ELSE [exc |-> "none", levels_found |-> lf.found, detected_level |-> detected.v,
          is_consistent |-> IsConsistent(lf.found),
          inconsistencies |-> IF IsConsistent(lf.found) THEN <<>>
                              ELSE Inconsistencies(lf.found, 1, detected.v)]

\* LevelDetector.validate_level_consistency
validate_level_consistency(character_data) ==
    ConsistencyResult(LevelsFound(character_data), detect_level(character_data))

\* re.findall(r'\d+', level_value)[0]: where the first digit is, 0 without one
RECURSIVE FirstDigit(_, _)
FirstDigit(chars, k) ==
    IF k > Len(chars) THEN 0
    ELSE IF chars[k] \in Digits THEN k
    ELSE FirstDigit(chars, k + 1)

\* the last digit of the run that starts at k
RECURSIVE RunEnd(_, _)
RunEnd(chars, k) ==
    IF k < Len(chars) /\ chars[k + 1] \in Digits THEN RunEnd(chars, k + 1) ELSE k

\* the string branch: int(numbers[0]) when there are numbers
NormalizeStr(chars, first) ==
    IF first = 0 THEN PyNone
    ELSE PyInt(DigitsValue(SubSeq(chars, first, RunEnd(chars, first)), 0))

\* mutant: the result is brought into the range 1..20
NormalizeClamped(level_value) ==
    CASE level_value.t = "int" -> PyInt(Clamp(level_value.i))
      [] level_value.t = "float" ->
           IF level_value.i % 10 = 0 THEN PyInt(Clamp(Trunc(level_value.i))) ELSE PyNone
      [] level_value.t = "str" ->
           IF FirstDigit(level_value.s, 1) = 0 THEN PyNone
           ELSE PyInt(Clamp(NormalizeStr(level_value.s, FirstDigit(level_value.s, 1)).i))
      [] OTHER -> PyNone

\* LevelDetector.normalize_level_format: an int as it is, a float that
\* is_integer() through int(), a string through its first run of digits,
\* None for everything else (an infinite float is not is_integer())
normalize_level_format(level_value) ==
    CASE level_value.t = "int" -> level_value
      [] level_value.t = "float" ->
           IF level_value.i % 10 = 0 THEN PyInt(Trunc(level_value.i)) ELSE PyNone
      [] level_value.t = "str" -> NormalizeStr(level_value.s, FirstDigit(level_value.s, 1))
      [] OTHER -> PyNone

\* ----------------------------------------------------------- validator
\* a ValidationResult
Finding(valid, message, severity, details) ==
    [is_valid |-> valid, message |-> message, severity |-> severity, details |-> details]
Detail(what, part) == [what |-> what, part |-> part]

\* converted_data: [has_name, name, type, system, items]; type "absent" is
\* a missing key; system: [present, fields]; a missing items key reads as
\* the empty list through .get("items", []).
\* an item: [type, has_system, level, has_name, name, description, stats, img]
\* with stats in {"absent", "null", "source"} (the _stats.compendiumSource)
\* and img in {"absent", "default", "custom"}
required_fields == <<"stamina", "characteristics", "combat", "hero">>

\* the outcome of one sub-check: the Findings it appended to
\* validation_results, the ValidationResult it returned (none or one) and
\* the counters of the QualityMetrics it returned (ability, description)
Outcome(exc, appended, returned, total, ok, failed) ==
    [exc |-> exc, appended |-> appended, returned |-> returned,
     total |-> total, ok |-> ok, failed |-> failed]

\* [field for field in required_fields if field not in system_data]
RECURSIVE MissingFields(_, _)
MissingFields(system, k) ==
    IF k > Len(required_fields) THEN <<>>
    ELSE (IF system.present /\ required_fields[k] \in system.fields
            THEN <<>> ELSE <<required_fields[k]>>)
         \o MissingFields(system, k + 1)

MissingFinding(missing_fields) ==
    IF missing_fields # <<>>
      THEN <<Finding(FALSE, "Missing required system fields", "error",
                     [k \in 1..Len(missing_fields) |->
                         Detail(missing_fields[k], "missing_fields")])>>
      ELSE <<>>

\* QualityValidator._validate_basic_structure
validate_basic_structure(converted) ==
    Outcome("none",
            (IF ~converted.has_name \/ converted.name = ""
               THEN <<Finding(FALSE, "Character missing name", "error", <<>>)>> ELSE <<>>)
            \o (IF converted.type # "hero"
                  THEN <<Finding(FALSE, "Character type is not 'hero'", "error",
                                 <<Detail(converted.type, "actual_type")>>)>> ELSE <<>>)
            \o (IF ~converted.system.present
                  THEN <<Finding(FALSE, "Character missing system data", "error", <<>>)>>
                  ELSE <<>>)
            \o MissingFinding(MissingFields(converted.system, 1)),
            <<>>, 0, 0, 0)

\* the first item of the given type, as a list of none or one
RECURSIVE FirstOfType(_, _, _)
FirstOfType(items, k, type) ==
    IF k > Len(items) THEN <<>>
    ELSE IF items[k].type = type THEN <<items[k]>>
    ELSE FirstOfType(items, k + 1, type)

\* class_items[0].get("system", {}).get("level"), None without a class item
LevelOf(class_items) ==
    IF class_items = <<>> THEN PyNone
    ELSE IF ~class_items[1].has_system \/ class_items[1].level = Absent THEN PyNone
    ELSE class_items[1].level
ConvertedLevel(converted) == LevelOf(FirstOfType(converted.items, 1, "class"))

\* mutant: the consistency of the sources is looked at before the mismatch
LevelResultWarnFirst(detected, validation, converted_level) ==
    IF detected.exc # "none" THEN Outcome(detected.exc, <<>>, <<>>, 0, 0, 0)
    ELSE IF validation.exc # "none" THEN Outcome(validation.exc, <<>>, <<>>, 0, 0, 0)
    ELSE IF ~validation.is_consistent
      THEN Outcome("none", <<>>,
                   <<Finding(TRUE, "Level sources inconsistent but conversion successful",
                             "warning", <<>>)>>, 0, 0, 0)
    ELSE IF converted_level # PyInt(detected.v)
      THEN Outcome("none", <<>>, <<Finding(FALSE, "Level mismatch", "error", <<>>)>>, 0, 0, 0)
    ELSE Outcome("none", <<>>, <<Finding(TRUE, "Level detection successful", "info", <<>>)>>,
                 0, 0, 0)

\* the three outcomes of the level sub-check, the mismatch first
LevelResult(detected, validation, converted_level) ==
    IF detected.exc # "none" THEN Outcome(detected.exc, <<>>, <<>>, 0, 0, 0)
    ELSE IF validation.exc # "none" THEN Outcome(validation.exc, <<>>, <<>>, 0, 0, 0)
    ELSE IF converted_level # PyInt(detected.v)
      THEN Outcome("none", <<>>, <<Finding(FALSE, "Level mismatch", "error", <<>>)>>, 0, 0, 0)
    ELSE IF ~validation.is_consistent
      THEN Outcome("none", <<>>,
                   <<Finding(TRUE, "Level sources inconsistent but conversion successful",
                             "warning", <<>>)>>, 0, 0, 0)
    ELSE Outcome("none", <<>>, <<Finding(TRUE, "Level detection successful", "info", <<>>)>>,
                 0, 0, 0)

\* QualityValidator._validate_level_detection
validate_level_detection(original, converted) ==
    LevelResult(detect_level(original), validate_level_consistency(original),
                ConvertedLevel(converted))

\* AbilityConverter.validate_ability_conversion, an external collaborator:
\* its verdict is an input of the run
AbilityValidation(collab) == [is_valid |-> collab.ability_valid]

AbilityResult(character_level, class_kind, validation) ==
    IF character_level.exc # "none" THEN Outcome(character_level.exc, <<>>, <<>>, 0, 0, 0)
    ELSE IF class_kind \notin {"absent", "dict"}
      THEN Outcome("AttributeError", <<>>, <<>>, 0, 0, 0)
    ELSE IF validation.is_valid THEN Outcome("none", <<>>, <<>>, 1, 1, 0)
    ELSE Outcome("none", <<Finding(FALSE, "Ability conversion incomplete", "error", <<>>)>>,
                 <<>>, 1, 0, 1)

\* QualityValidator._validate_ability_conversion
validate_ability_conversion(original, converted, collab) ==
    AbilityResult(detect_level(original), original.class.kind, AbilityValidation(collab))

\* DescriptionTransfer.audit_description_transfers, an external
\* collaborator: its counts are inputs of the run
DescriptionAudit(collab) ==
    [failed_transfers |-> collab.failed_transfers,
     empty_descriptions |-> collab.empty_descriptions]

DescriptionResult(audit) ==
    Outcome("none",
            (IF audit.failed_transfers > 0
               THEN <<Finding(FALSE, "Description transfer failures", "error", <<>>)>>
               ELSE <<>>)
            \o (IF audit.empty_descriptions > 0
                  THEN <<Finding(TRUE, "Empty descriptions", "warning", <<>>)>> ELSE <<>>),
            <<>>, 1, IF audit.failed_transfers = 0 THEN 1 ELSE 0, audit.failed_transfers)

\* QualityValidator._validate_description_transfers
validate_description_transfers(original, converted, collab) ==
    DescriptionResult(DescriptionAudit(collab))

\* TextNormalizer.validate_json_roundtrip, an external collaborator: the
\* texts that do not survive the round trip
UnsafeTexts == {"Bad"}
validate_json_roundtrip(text) == text \notin UnsafeTexts

\* item.get("name", "") and item.get("system", {}).get("description", {}).get("value", "")
ItemName(item) == IF item.has_name THEN item.name ELSE ""
ItemDescription(item) == IF item.has_system THEN item.description ELSE ""

\* the encoding_issues list of the item loop
RECURSIVE EncodingIssues(_, _)
EncodingIssues(items, k) ==
    IF k > Len(items) THEN <<>>
    ELSE (IF ItemName(items[k]) # "" /\ ~validate_json_roundtrip(ItemName(items[k]))
            THEN <<Detail(ItemName(items[k]), "name")>> ELSE <<>>)
         \o (IF ItemDescription(items[k]) # ""
                /\ ~validate_json_roundtrip(ItemDescription(items[k]))
               THEN <<Detail(ItemName(items[k]), "description")>> ELSE <<>>)
         \o EncodingIssues(items, k + 1)

EncodingResult(name, encoding_issues) ==
    IF ~validate_json_roundtrip(name)
      THEN Outcome("none", <<>>,
                   <<Finding(FALSE, "Character name is not JSON-safe", "error",
                             <<Detail(name, "name")>>)>>, 0, 0, 0)
    ELSE IF encoding_issues # <<>>
      THEN Outcome("none", <<>>,
                   <<Finding(FALSE, "Text encoding issues found", "error", encoding_issues)>>,
                   0, 0, 0)
    ELSE Outcome("none", <<>>, <<Finding(TRUE, "All text encoding is valid", "info", <<>>)>>,
                 0, 0, 0)

\* QualityValidator._validate_text_encoding
validate_text_encoding(converted) ==
    EncodingResult(IF converted.has_name THEN converted.name ELSE "",
                   EncodingIssues(converted.items, 1))

\* has_compendium_source of one item
HasCompendiumSource(item) == item.stats = "source" \/ item.img = "custom"

RECURSIVE MappedItems(_, _)
MappedItems(items, k) ==
    IF k > Len(items) THEN 0
    ELSE (IF HasCompendiumSource(items[k]) THEN 1 ELSE 0) + MappedItems(items, k + 1)

\* mutant: a rate of exactly one half is low as well
LowMappingRateInclusive(mapped_items, total_items) ==
    IF total_items > 0 THEN 2 * mapped_items <= total_items ELSE TRUE

\* mapping_rate < 0.5, with mapping_rate = mapped / total, or 0 without items
LowMappingRate(mapped_items, total_items) ==
    IF total_items > 0 THEN 2 * mapped_items < total_items ELSE TRUE

\* QualityValidator._validate_compendium_mappings
validate_compendium_mappings(converted) ==
    IF LowMappingRate(MappedItems(converted.items, 1), Len(converted.items))
      THEN Outcome("none", <<>>,
                   <<Finding(TRUE, "Low compendium mapping rate", "warning", <<>>)>>, 0, 0, 0)
    ELSE Outcome("none", <<>>,
                 <<Finding(TRUE, "Good compendium mapping rate", "info", <<>>)>>, 0, 0, 0)

\* the six sub-checks in the order validate_character_conversion calls them
SubChecks(original, converted, collab) ==
    << [name |-> "structure", out |-> validate_basic_structure(converted)],
       [name |-> "level", out |-> validate_level_detection(original, converted)],
       [name |-> "ability", out |-> validate_ability_conversion(original, converted, collab)],
       [name |-> "description", out |-> validate_description_transfers(original, converted, collab)],
       [name |-> "encoding", out |-> validate_text_encoding(converted)],
       [name |-> "mapping", out |-> validate_compendium_mappings(converted)] >>

\* mutant: the run stops after the first sub-check that found an error
RECURSIVE ExecutedUntilError(_, _)
ExecutedUntilError(steps, k) ==
    IF k > Len(steps) THEN <<>>
    ELSE IF steps[k].out.exc # "none" THEN <<>>
    ELSE IF \E f \in {(steps[k].out.appended \o steps[k].out.returned)[j] :
                          j \in 1..Len(steps[k].out.appended \o steps[k].out.returned)} :
               f.severity = "error"
      THEN <<steps[k]>>
    ELSE <<steps[k]>> \o ExecutedUntilError(steps, k + 1)

\* the calls that complete: an exception ends the run, nothing else does
RECURSIVE Executed(_, _)
Executed(steps, k) ==
    IF k > Len(steps) THEN <<>>
    ELSE IF steps[k].out.exc # "none" THEN <<>>
    ELSE <<steps[k]>> \o Executed(steps, k + 1)

RECURSIVE FirstExc(_, _)
FirstExc(steps, k) ==
    IF k > Len(steps) THEN "none"
    ELSE IF steps[k].out.exc # "none" THEN steps[k].out.exc
    ELSE FirstExc(steps, k + 1)

RECURSIVE Appended(_, _)
Appended(steps, k) ==
    IF k > Len(steps) THEN <<>> ELSE steps[k].out.appended \o Appended(steps, k + 1)

Bit(b) == IF b THEN 1 ELSE 0

\* what one completed sub-check adds to the run's counters
Tally(step) ==
    CASE step.name = "structure" ->
           [total |-> 1, ok |-> 0, failed |-> 0, warn |-> 0]
      [] step.name \in {"level", "encoding"} ->
           [total |-> 1, ok |-> Bit(step.out.returned[1].is_valid),
            failed |-> Bit(~step.out.returned[1].is_valid), warn |-> 0]
      [] step.name = "mapping" ->
           [total |-> 1, ok |-> Bit(step.out.returned[1].is_valid),
            failed |-> 0, warn |-> Bit(~step.out.returned[1].is_valid)]
      [] OTHER ->
           [total |-> step.out.total, ok |-> step.out.ok, failed |-> step.out.failed,
            warn |-> 0]

RECURSIVE SumTally(_, _, _)
SumTally(steps, k, field) ==
    IF k > Len(steps) THEN 0 ELSE Tally(steps[k])[field] + SumTally(steps, k + 1, field)

RECURSIVE CountSeverity(_, _, _)
CountSeverity(findings, k, severity) ==
    IF k > Len(findings) THEN 0
    ELSE Bit(findings[k].severity = severity) + CountSeverity(findings, k + 1, severity)

\* timestamps: NoTime is None
NoTime == 0 - 1

\* QualityValidator.get_processing_time
get_processing_time(start, end) ==
    IF start # NoTime /\ end # NoTime THEN end - start ELSE 0

QualityMetrics(exc, total, ok, failed, warnings, time, issues) ==
    [exc |-> exc, total_items |-> total, successful_conversions |-> ok,
     failed_conversions |-> failed, items_with_warnings |-> warnings,
     processing_time |-> time, issues_found |-> issues]
NoMetrics == QualityMetrics("notcalled", 0, 0, 0, 0, 0, <<>>)

\* the Metrics of a run whose sub-checks `done` completed and left the
\* Finding list `after`
Aggregate(exc, done, after, time) ==
    IF exc # "none" THEN QualityMetrics(exc, 0, 0, 0, 0, 0, <<>>)
    ELSE QualityMetrics("none", SumTally(done, 1, "total"), SumTally(done, 1, "ok"),
                        SumTally(done, 1, "failed"),
                        SumTally(done, 1, "warn") + CountSeverity(after, 1, "warning"),
                        time, after)

RunResult(results, done, exc, time) ==
    [validation_results |-> results \o Appended(done, 1),
     subchecks |-> done,
     metrics |-> Aggregate(exc, done, results \o Appended(done, 1), time)]

RunSteps(results, steps, time) == RunResult(results, Executed(steps, 1), FirstExc(steps, 1), time)

\* QualityValidator.validate_character_conversion: the validator's Finding
\* list after the call, the sub-checks that completed, and the Metrics
\* returned (or the exception)
validate_character_conversion(results, start, end, original, converted, collab) ==
    RunSteps(results, SubChecks(original, converted, collab), get_processing_time(start, end))

\* ------------------------------------------------------------- report
RECURSIVE Messages(_, _, _)
Messages(findings, k, severity) ==
    IF k > Len(findings) THEN <<>>
    ELSE (IF findings[k].severity = severity THEN <<findings[k].message>> ELSE <<>>)
         \o Messages(findings, k + 1, severity)

FirstFive(seq) == SubSeq(seq, 1, Min(5, Len(seq)))

\* the "Overall Assessment" line; the failure rate is failed / total
Verdict(m) ==
    IF m.failed_conversions = 0
      THEN IF m.items_with_warnings = 0 THEN Ok(1) ELSE Ok(2)
    ELSE IF m.total_items = 0 THEN Raise("ZeroDivisionError")
    ELSE IF 10 * m.failed_conversions < m.total_items THEN Ok(3)
    ELSE Ok(4)
VerdictName == <<"excellent", "good", "fair", "poor">>

\* successful / total as a fraction, 0 without items
SuccessRate(m) ==
    IF m.total_items > 0 THEN [num |-> m.successful_conversions, den |-> m.total_items]
    ELSE [num |-> 0, den |-> 1]

NoReport == [exc |-> "notcalled", success_rate |-> [num |-> 0, den |-> 1],
             errors |-> <<>>, warnings |-> <<>>, verdict |-> "none"]

\* QualityValidator.generate_quality_report
Render(m, v) ==
    IF v.exc # "none"
      THEN [exc |-> v.exc, success_rate |-> [num |-> 0, den |-> 1],
            errors |-> <<>>, warnings |-> <<>>, verdict |-> "none"]
    ELSE [exc |-> "none", success_rate |-> SuccessRate(m),
          errors |-> FirstFive(Messages(m.issues_found, 1, "error")),
          warnings |-> FirstFive(Messages(m.issues_found, 1, "warning")),
          verdict |-> VerdictName[v.v]]
generate_quality_report(m) == Render(m, Verdict(m))

\* ------------------------------------------------------------- inputs
SeqsUpTo(S, n) == UNION {[1..k -> S] : k \in 0..n}

LevelValues ==
    {Absent, PyNone, PyInf, PyInt(0 - 3), PyInt(0), PyInt(1), PyInt(6), PyInt(25),
     PyFloat(55), PyStr(<<"7">>),
     PyStr(<<"5", "t", "h", " ", "l", "e", "v", "e", "l">>),
     PyStr(<<"L", "v", "l", " ", "5">>)}
FeatureElems ==
    {Feature(Absent), Feature(PyNone), Feature(PyInt(1)), Feature(PyInt(10)),
     Feature(PyStr(<<"7">>)), [kind |-> "int", level |-> Absent]}
FeatureLists ==
    {NoFeatures, [kind |-> "int", elems |-> <<>>]}
    \cup {Features(elems) : elems \in SeqsUpTo(FeatureElems, MaxFeatures)}
ClassValues ==
    {NonDict("absent"), NonDict("none"), NonDict("str")}
    \cup {ClassDict(level, fbl) : level \in LevelValues, fbl \in FeatureLists}
Originals == {Record(level, class) : level \in LevelValues, class \in ClassValues}

\* the values normalize_level_format is called with: ints and floats (in
\* tenths) around the range 1..20, every string up to MaxLen over a few
\* characters, None, an infinite float and a list
NormalizeChars == {"5", "1", "0", "-", " ", "L"}
NormalizeValues ==
    {PyNone, PyInf, [t |-> "list", i |-> 0, s |-> <<>>]}
    \cup {PyInt(n) : n \in (0 - 3)..25}
    \cup {PyFloat(tenths) : tenths \in {0 - 30, 0 - 5, 0, 5, 50, 55, 250}}
    \cup {PyStr(chars) : chars \in SeqsUpTo(NormalizeChars, MaxLen)}

\* the originals the validator is run on: {}, one source, two sources that
\* disagree, and a class that is null
ValidatorOriginals ==
    {Record(Absent, NonDict("absent")),
     Record(Absent, ClassDict(PyInt(6), NoFeatures)),
     Record(Absent, ClassDict(PyInt(6), Features(<<Feature(PyInt(10))>>))),
     Record(PyInt(5), NonDict("none"))}

Item(type, has_system, level, has_name, name, description, stats, img) ==
    [type |-> type, has_system |-> has_system, level |-> level, has_name |-> has_name,
     name |-> name, description |-> description, stats |-> stats, img |-> img]
Items ==
    {Item("class", TRUE, PyInt(6), TRUE, "Fury", "", "source", "absent"),
     Item("class", FALSE, Absent, FALSE, "", "", "absent", "default"),
     Item("ability", TRUE, Absent, TRUE, "Bad", "Text", "null", "custom"),
     Item("feature", TRUE, Absent, TRUE, "Kit", "Bad", "null", "absent")}
Headers ==
    {[has_name |-> TRUE, name |-> "Hero", type |-> "hero",
      system |-> [present |-> TRUE,
                  fields |-> {"stamina", "characteristics", "combat", "hero"}]],
     [has_name |-> FALSE, name |-> "", type |-> "absent",
      system |-> [present |-> FALSE, fields |-> {}]],
     [has_name |-> TRUE, name |-> "Bad", type |-> "npc",
      system |-> [present |-> TRUE, fields |-> {"stamina", "combat"}]]}
Converted(header, items) ==
    [has_name |-> header.has_name, name |-> header.name, type |-> header.type,
     system |-> header.system, items |-> items]
Converteds == {Converted(h, items) : h \in Headers, items \in SeqsUpTo(Items, MaxItems)}
Collabs ==
    [ability_valid : BOOLEAN, failed_transfers : 0..MaxCount, empty_descriptions : 0..MaxCount]

\* Metrics a caller builds by hand for generate_quality_report
IssueLists ==
    {<<>>,
     <<Finding(FALSE, "Character missing name", "error", <<>>)>>,
     <<Finding(TRUE, "Empty descriptions", "warning", <<>>),
       Finding(FALSE, "Character missing name", "error", <<>>)>>}
HandBuiltMetrics ==
    {QualityMetrics("none", total, ok, failed, warnings, 0, issues) :
        total \in 0..MaxTotal, ok \in 0..MaxCounter, failed \in 0..MaxCounter,
        warnings \in 0..MaxCounter, issues \in IssueLists}

\* -------------------------------------------------------------- state
VARIABLES character_data, converted_data, collab, detect_out, consistency_out,
          normalize_out, validation_results, start_time, end_time, metrics, subchecks, report,
          earlier, aliased

vars == <<character_data, converted_data, collab, detect_out, consistency_out,
          normalize_out, validation_results, start_time, end_time, metrics, subchecks, report,
          earlier, aliased>>
inputs == <<character_data, converted_data, collab>>
resolver == <<detect_out, consistency_out, normalize_out>>
validator == <<validation_results, start_time, end_time, earlier, aliased>>

\* metrics is what the latest run returned. Its issues_found is the validator's
\* own list object (issues_found=self.validation_results), not a copy:
\* aliased says that the validator still appends to that list; earlier is the
\* Metrics of the run before the latest, as its holder reads it now

NotCalled == [exc |-> "notcalled", v |-> 0]
NotNormalized == [exc |-> "notcalled", val |-> PyNone]

\* QualityValidator.__init__, nothing called yet
Pristine ==
    /\ detect_out = NotCalled
    /\ consistency_out = ConsistencyRaise("notcalled")
    /\ normalize_out = NotNormalized
    /\ validation_results = <<>>
    /\ start_time = NoTime
    /\ end_time = NoTime
    /\ metrics = NoMetrics
    /\ subchecks = <<>>
    /\ report = NoReport
    /\ earlier = NoMetrics
    /\ aliased = FALSE

\* the conversions the validator's life cycle is followed on: a clean one
\* whose level sources disagree, an empty converted record with failing
\* collaborators, a converted record with unsafe text, an original whose
\* class is null, and a conversion whose only Finding is an ability error
Conversions ==
    {[original |-> Record(Absent, ClassDict(PyInt(6), Features(<<Feature(PyInt(10))>>))),
      converted |-> Converted(CHOOSE h \in Headers : h.name = "Hero",
                              <<CHOOSE i \in Items : i.name = "Fury">>),
      collab |-> [ability_valid |-> TRUE, failed_transfers |-> 0, empty_descriptions |-> 0]],
     [original |-> Record(Absent, NonDict("absent")),
      converted |-> Converted(CHOOSE h \in Headers : ~h.has_name, <<>>),
      collab |-> [ability_valid |-> FALSE, failed_transfers |-> 1, empty_descriptions |-> 1]],
     [original |-> Record(Absent, ClassDict(PyInt(6), NoFeatures)),
      converted |-> Converted(CHOOSE h \in Headers : h.name = "Bad",
                              <<CHOOSE i \in Items : i.name = "Kit">>),
      collab |-> [ability_valid |-> TRUE, failed_transfers |-> 0, empty_descriptions |-> 1]],
     [original |-> Record(PyInt(5), NonDict("none")),
      converted |-> Converted(CHOOSE h \in Headers : h.name = "Hero", <<>>),
      collab |-> [ability_valid |-> TRUE, failed_transfers |-> 0, empty_descriptions |-> 0]],
     [original |-> Record(Absent, ClassDict(PyInt(6), NoFeatures)),
      converted |-> Converted(CHOOSE h \in Headers : h.name = "Hero",
                              <<CHOOSE i \in Items : i.name = "Fury">>),
      collab |-> [ability_valid |-> FALSE, failed_transfers |-> 0, empty_descriptions |-> 0]]}

\* a validator and the records of one conversion
Init ==
    /\ \E c \in Conversions :
          /\ character_data = c.original
          /\ converted_data = c.converted
          /\ collab = c.collab
    /\ Pristine

\* the clock never runs backwards
Now == {t \in 0..MaxTime : t >= start_time /\ t >= end_time}

\* mutant: the Finding list is emptied in place, not replaced by a new one
StartValidationClears ==
    /\ \E t \in Now : start_time' = t
    /\ validation_results' = <<>>
    /\ aliased' = aliased
    /\ metrics' = IF aliased THEN [metrics EXCEPT !.issues_found = <<>>] ELSE metrics
    /\ UNCHANGED <<inputs, resolver, end_time, subchecks, report, earlier>>

\* QualityValidator.start_validation: self.validation_results = [] binds a
\* new list, the one a returned Metrics holds is left as it is
StartValidation ==
    /\ \E t \in Now : start_time' = t
    /\ validation_results' = <<>>
    /\ aliased' = FALSE
    /\ UNCHANGED <<inputs, resolver, end_time, metrics, subchecks, report, earlier>>

\* QualityValidator.end_validation
EndValidation ==
    /\ \E t \in Now : end_time' = t
    /\ UNCHANGED <<inputs, resolver, validation_results, start_time, metrics, subchecks, report,
                   earlier, aliased>>

\* the run's effect on the validator, and what the caller receives
Returns(run) ==
    /\ validation_results' = run.validation_results
    /\ subchecks' = run.subchecks
    /\ metrics' = run.metrics
    /\ aliased' = (run.metrics.exc = "none")
    /\ earlier' = IF metrics.exc # "none" THEN earlier
                  ELSE IF aliased THEN [metrics EXCEPT !.issues_found = run.validation_results]
                  ELSE metrics

\* QualityValidator.validate_character_conversion
ValidateCharacterConversion ==
    /\ Len(validation_results) <= MaxStale
    /\ Returns(validate_character_conversion(validation_results, start_time, end_time,
                                              character_data, converted_data, collab))
    /\ UNCHANGED <<inputs, resolver, start_time, end_time, report>>

\* what validate_conversion_with_quality leaves behind: the run is made with
\* the start timestamp only; an exception of the run goes to the caller
\* before end_validation and the report
Finishes(run, started, ended) ==
    /\ start_time' = started
    /\ Returns(run)
    /\ end_time' = IF run.metrics.exc = "none" THEN ended ELSE NoTime
    /\ report' = IF run.metrics.exc = "none" THEN generate_quality_report(run.metrics)
                 ELSE NoReport

\* validate_conversion_with_quality: a new validator, start_validation, the
\* run, end_validation, the report
ValidateConversionWithQuality ==
    /\ start_time = NoTime /\ end_time = NoTime
    /\ validation_results = <<>> /\ metrics = NoMetrics
    /\ \E started \in 0..MaxTime : \E ended \in started..MaxTime :
          Finishes(validate_character_conversion(<<>>, started, NoTime, character_data,
                                                 converted_data, collab),
                   started, ended)
    /\ UNCHANGED <<inputs, resolver>>

Next ==
    \/ StartValidation
    \/ ValidateCharacterConversion
    \/ EndValidation
    \/ ValidateConversionWithQuality

Spec == Init /\ [][Next]_vars

\* one validator run on every conversion of the input sets
InitRun ==
    /\ character_data \in ValidatorOriginals
    /\ converted_data \in Converteds
    /\ collab \in Collabs
    /\ Pristine

NextRun == ValidateCharacterConversion

SpecRun == InitRun /\ [][NextRun]_vars

\* the resolver on one record
InitResolver ==
    /\ character_data \in Originals
    /\ converted_data = Converted(CHOOSE h \in Headers : h.type = "hero", <<>>)
    /\ collab = [ability_valid |-> TRUE, failed_transfers |-> 0, empty_descriptions |-> 0]
    /\ Pristine

\* LevelDetector.detect_level
DetectLevel ==
    /\ detect_out' = detect_level(character_data)
    /\ UNCHANGED <<inputs, consistency_out, normalize_out, validator, metrics, subchecks, report>>

\* LevelDetector.validate_level_consistency
ValidateLevelConsistency ==
    /\ consistency_out' = validate_level_consistency(character_data)
    /\ UNCHANGED <<inputs, detect_out, normalize_out, validator, metrics, subchecks, report>>

NextResolver == DetectLevel \/ ValidateLevelConsistency

SpecResolver == InitResolver /\ [][NextResolver]_vars

\* normalize_level_format on one value, carried as the level of a record
InitNormalize ==
    /\ character_data \in {Record(level_value, NonDict("absent")) :
                               level_value \in NormalizeValues}
    /\ converted_data = Converted(CHOOSE h \in Headers : h.type = "hero", <<>>)
    /\ collab = [ability_valid |-> TRUE, failed_transfers |-> 0, empty_descriptions |-> 0]
    /\ Pristine

\* LevelDetector.normalize_level_format
NormalizeLevelFormat ==
    /\ normalize_out' = [exc |-> "none", val |-> normalize_level_format(character_data.level)]
    /\ UNCHANGED <<inputs, detect_out, consistency_out, validator, metrics, subchecks, report>>

NextNormalize == NormalizeLevelFormat

SpecNormalize == InitNormalize /\ [][NextNormalize]_vars

\* the report of one hand-built Metrics
InitReport ==
    /\ character_data = Record(Absent, NonDict("absent"))
    /\ converted_data = Converted(CHOOSE h \in Headers : h.type = "hero", <<>>)
    /\ collab = [ability_valid |-> TRUE, failed_transfers |-> 0, empty_descriptions |-> 0]
    /\ detect_out = NotCalled
    /\ consistency_out = ConsistencyRaise("notcalled")
    /\ normalize_out = NotNormalized
    /\ validation_results = <<>>
    /\ start_time = NoTime
    /\ end_time = NoTime
    /\ metrics \in HandBuiltMetrics
    /\ subchecks = <<>>
    /\ report = NoReport
    /\ earlier = NoMetrics
    /\ aliased = FALSE

\* QualityValidator.generate_quality_report
GenerateQualityReport ==
    /\ metrics.exc = "none"
    /\ report' = generate_quality_report(metrics)
    /\ UNCHANGED <<inputs, resolver, validator, metrics, subchecks>>

NextReport == GenerateQualityReport

SpecReport == InitReport /\ [][NextReport]_vars

\* ------------------------------------------------------------- claims
Called(out) == out.exc # "notcalled"
Range(seq) == {seq[k] : k \in 1..Len(seq)}

\* the raw value of each source of the record under test, Absent when the
\* record has none
TopValue == character_data.level
ClassLevelValue ==
    IF character_data.class.kind = "dict" THEN character_data.class.level ELSE Absent
FeaturesValue ==
    IF character_data.class.kind = "dict" /\ Truthy(character_data.class.fbl)
       /\ FeaturesMax(character_data.class.fbl).exc = "none"
      THEN FeaturesMax(character_data.class.fbl).val
      ELSE Absent
Parses(val) == val # Absent /\ PyIntOf(val).exc = "none"
InRange(v) == IF v > 20 THEN 20 ELSE IF v < 1 THEN 1 ELSE v

\* C1: for every record, of any shape, detect_level returns an integer in
\* [1, 20] and never raises
C1_AlwaysInRange ==
    Called(detect_out) => detect_out.exc = "none" /\ detect_out.v \in 1..20

\* C2: detect_level uses the first source that parses as an integer, in the
\* order top-level level, class.level, maximum of featuresByLevel: a top-level
\* value that parses is used whatever the others hold, a class.level that
\* parses is used whenever the top-level value is absent or does not parse,
\* and the features maximum is used when neither of the first two parses
C2_PriorityOrder ==
    Called(detect_out) =>
        /\ Parses(TopValue) => detect_out = Ok(InRange(PyIntOf(TopValue).v))
        /\ ~Parses(TopValue) /\ Parses(ClassLevelValue)
              => detect_out = Ok(InRange(PyIntOf(ClassLevelValue).v))
        /\ ~Parses(TopValue) /\ ~Parses(ClassLevelValue) /\ Parses(FeaturesValue)
              => detect_out = Ok(InRange(PyIntOf(FeaturesValue).v))

\* all Findings a run's sub-checks produced, appended or returned, in order
RECURSIVE Produced(_, _)
Produced(steps, k) ==
    IF k > Len(steps) THEN <<>>
    ELSE steps[k].out.appended \o steps[k].out.returned \o Produced(steps, k + 1)

\* C3: every structural, level or text-encoding violation the run detects is
\* an error Finding of the issues_found of the Metrics it returns
C3_ViolationsInIssues ==
    metrics.exc = "none" =>
        \A k \in 1..Len(subchecks) :
            subchecks[k].name \in {"structure", "level", "encoding"} =>
                \A f \in Range(subchecks[k].out.appended \o subchecks[k].out.returned) :
                    f.severity = "error" => f \in Range(metrics.issues_found)

\* an original whose keys, where present, hold values of the expected shape
InScope == character_data.class.kind \in {"absent", "dict"}

\* C4: on records with missing keys, empty sequences or no items the run
\* never raises and never stops early: the six sub-checks run in their fixed
\* order even after an earlier one found errors, and Metrics are returned
C4_NeverShortCircuits ==
    Called(metrics) /\ InScope =>
        /\ metrics.exc = "none"
        /\ [k \in 1..Len(subchecks) |-> subchecks[k].name]
             = <<"structure", "level", "ability", "description", "encoding", "mapping">>

\* C4 witness: the run on the empty original and a converted record without
\* name, type, system or items completed all six sub-checks although the
\* structural and the level sub-check found errors
C4_Witness ==
    /\ metrics.exc = "none"
    /\ character_data = Record(Absent, NonDict("absent"))
    /\ ~converted_data.has_name /\ converted_data.items = <<>>
    /\ Len(subchecks) = 6
    /\ Len(subchecks[1].out.appended) = 4
    /\ subchecks[2].out.returned[1].severity = "error"

\* C5: items_with_warnings of the returned Metrics is the number of warning
\* Findings the sub-checks of that run produced, whichever sub-check
\* produced them (a run that started on an empty Finding list)
C5_WarningCount ==
    metrics.exc = "none" /\ Len(metrics.issues_found) = Len(Appended(subchecks, 1)) =>
        metrics.items_with_warnings = CountSeverity(Produced(subchecks, 1), 1, "warning")

\* C6: the verdict follows the thresholds: excellent iff failed = 0 and no
\* warnings, good iff failed = 0 and warnings, fair iff failed > 0 and
\* failed / total < 0.1, poor otherwise; one verdict for every Metrics
C6_VerdictThresholds ==
    Called(report) =>
        /\ report.verdict \in {"excellent", "good", "fair", "poor"}
        /\ report.verdict = "excellent"
              <=> metrics.failed_conversions = 0 /\ metrics.items_with_warnings = 0
        /\ report.verdict = "good"
              <=> metrics.failed_conversions = 0 /\ metrics.items_with_warnings > 0
        /\ metrics.total_items > 0 =>
              (report.verdict = "fair"
                 <=> metrics.failed_conversions > 0
                     /\ 10 * metrics.failed_conversions < metrics.total_items)

\* C7: a report is returned, without a division error, for every Metrics
\* whose total_items is 0, whatever the other counters
C7_ZeroTotalRenders ==
    Called(report) /\ metrics.total_items = 0 =>
        report.exc = "none" /\ report.success_rate.num = 0

\* the sources of the record under test that yield a raw value
RawLevels ==
    {e \in {[source |-> "character.level", p |-> TopSource(character_data)],
            [source |-> "class.level", p |-> ClassSource(character_data)],
            [source |-> "featuresByLevel", p |-> FeaturesSource(character_data)]} :
        e.p.found = 1}
Disagreeing(detected) ==
    {[source |-> e.source, level |-> e.p.v, difference |-> e.p.v - detected] :
        e \in {x \in RawLevels : x.p.v # detected}}

\* C8: validate_level_consistency reports is_consistent iff the sources that
\* yield a value yield at most one distinct raw value; its detected_level is
\* detect_level of the record; when inconsistent, its inconsistencies are
\* exactly the sources whose raw value differs from detected_level, each
\* with difference = raw value - detected_level
C8_ConsistencyReport ==
    consistency_out.exc = "none" =>
        /\ consistency_out.is_consistent <=> Cardinality({e.p.v : e \in RawLevels}) <= 1
        /\ detect_level(character_data) = Ok(consistency_out.detected_level)
        /\ ~consistency_out.is_consistent =>
              /\ Range(consistency_out.inconsistencies)
                   = Disagreeing(consistency_out.detected_level)
              /\ Len(consistency_out.inconsistencies)
                   = Cardinality(Disagreeing(consistency_out.detected_level))

\* C8 witness: a report on sources that disagree, one of them above the
\* range: the raw 25 is listed against the detected 20 with difference 5
C8_Witness ==
    /\ consistency_out.exc = "none"
    /\ ~consistency_out.is_consistent
    /\ consistency_out.detected_level = 20
    /\ [source |-> "character.level", level |-> 25, difference |-> 5]
          \in Range(consistency_out.inconsistencies)

\* the values the sources of the record under test parse to
ParsedValues ==
    {PyIntOf(val).v : val \in {x \in {TopValue, ClassLevelValue, FeaturesValue} : Parses(x)}}

\* C9: when a source value parses to v the result is min(20, max(1, v)), and
\* when no source yields a value that parses the result is the default 1
C9_ClampOrDefault ==
    Called(detect_out) =>
        IF ParsedValues = {} THEN detect_out = Ok(1)
        ELSE \E v \in ParsedValues : detect_out = Ok(InRange(v))

\* the integer of the first run of digits of a string, 0 - 1 without digits
RECURSIVE DigitRun(_, _, _)
DigitRun(chars, k, acc) ==
    IF k > Len(chars) THEN acc
    ELSE IF chars[k] \in Digits
      THEN DigitRun(chars, k + 1, 10 * (IF acc < 0 THEN 0 ELSE acc) + DigitVal(chars[k]))
    ELSE IF acc >= 0 THEN acc
    ELSE DigitRun(chars, k + 1, acc)

\* C10: a top-level level that is a string containing digits is parsed to the
\* integer of its run of digits, and that source is used
C10_DigitStrings ==
    Called(detect_out) /\ TopValue.t = "str" /\ DigitRun(TopValue.s, 1, 0 - 1) >= 0 =>
        detect_out = Ok(InRange(DigitRun(TopValue.s, 1, 0 - 1)))

\* C11: normalize_level_format returns an integer unchanged, a whole float
\* as its integer, the first run of digits of a string that has digits, and
\* None for a fractional float, a string without digits and every other
\* type; the result is not clamped
C11_NormalizeFormats ==
    Called(normalize_out) =>
        /\ normalize_out.exc = "none"
        /\ normalize_out.val =
             (CASE TopValue.t = "int" -> PyInt(TopValue.i)
                [] TopValue.t = "float" /\ TopValue.i % 10 = 0 ->
                     PyInt(IF TopValue.i >= 0 THEN TopValue.i \div 10
                           ELSE 0 - ((0 - TopValue.i) \div 10))
                [] TopValue.t = "str" /\ DigitRun(TopValue.s, 1, 0 - 1) >= 0 ->
                     PyInt(DigitRun(TopValue.s, 1, 0 - 1))
                [] OTHER -> PyNone)

\* C11 witness: a string whose digits come after other characters was
\* normalized to a value above 20, left as it is
C11_Witness ==
    /\ normalize_out.exc = "none"
    /\ TopValue.t = "str" /\ Len(TopValue.s) > 1 /\ TopValue.s[1] \notin Digits
    /\ normalize_out.val.t = "int" /\ normalize_out.val.i > 20

\* the level carried by the first class item of the converted record, None
\* without one
ClassItems == {k \in 1..Len(converted_data.items) : converted_data.items[k].type = "class"}
CarriedLevel ==
    IF ClassItems = {} THEN PyNone
    ELSE IF ~converted_data.items[CHOOSE k \in ClassItems : \A j \in ClassItems : k <= j].has_system
      THEN PyNone
    ELSE IF converted_data.items[CHOOSE k \in ClassItems : \A j \in ClassItems : k <= j].level = Absent
      THEN PyNone
    ELSE converted_data.items[CHOOSE k \in ClassItems : \A j \in ClassItems : k <= j].level
LevelMatches == CarriedLevel = PyInt(detect_level(character_data).v)
SourcesAgree == Cardinality({e.p.v : e \in RawLevels}) <= 1

\* what the sub-checks other than the level one add to the run's counters
OtherFailed ==
    subchecks[3].out.failed + subchecks[4].out.failed
    + (IF subchecks[5].out.returned[1].is_valid THEN 0 ELSE 1)
OtherSuccessful ==
    subchecks[3].out.ok + subchecks[4].out.ok
    + (IF subchecks[5].out.returned[1].is_valid THEN 1 ELSE 0)
    + (IF subchecks[6].out.returned[1].is_valid THEN 1 ELSE 0)

\* C12: the level sub-check gives an error with is_valid = false, counted in
\* failed_conversions, when the level of the converted record's first class
\* item differs from detect_level(original), whether or not the sources
\* agree; a warning with is_valid = true, counted in successful_conversions,
\* when the levels match and the sources disagree; an info result otherwise
C12_LevelAsymmetry ==
    metrics.exc = "none" =>
        /\ Len(subchecks[2].out.returned) = 1
        /\ subchecks[2].out.appended = <<>>
        /\ ~LevelMatches =>
              /\ subchecks[2].out.returned[1].severity = "error"
              /\ ~subchecks[2].out.returned[1].is_valid
              /\ metrics.failed_conversions = OtherFailed + 1
              /\ metrics.successful_conversions = OtherSuccessful
        /\ LevelMatches /\ ~SourcesAgree =>
              /\ subchecks[2].out.returned[1].severity = "warning"
              /\ subchecks[2].out.returned[1].is_valid
              /\ metrics.successful_conversions = OtherSuccessful + 1
              /\ metrics.failed_conversions = OtherFailed
        /\ LevelMatches /\ SourcesAgree =>
              /\ subchecks[2].out.returned[1].severity = "info"
              /\ subchecks[2].out.returned[1].is_valid
              /\ metrics.successful_conversions = OtherSuccessful + 1

\* C12 witness: a run whose original has sources that disagree (class.level
\* 6, features up to 10) and whose converted class item carries the detected
\* level 6: the level sub-check gave a warning and counted as successful
C12_Witness ==
    /\ metrics.exc = "none"
    /\ LevelMatches /\ ~SourcesAgree
    /\ CarriedLevel = PyInt(6)
    /\ subchecks[2].out.returned[1].severity = "warning"
    /\ metrics.successful_conversions = OtherSuccessful + 1

\* the strings of the converted record that do not survive the round trip
CharacterName == IF converted_data.has_name THEN converted_data.name ELSE ""
NameOffends == ~validate_json_roundtrip(CharacterName)
OffendingNames ==
    {k \in 1..Len(converted_data.items) :
        converted_data.items[k].has_name
        /\ ~validate_json_roundtrip(converted_data.items[k].name)}
OffendingDescriptions ==
    {k \in 1..Len(converted_data.items) :
        converted_data.items[k].has_system
        /\ ~validate_json_roundtrip(converted_data.items[k].description)}
NameOfItem(k) == IF converted_data.items[k].has_name THEN converted_data.items[k].name ELSE ""

\* C13: the text-safety check gives one result; it is valid iff the character
\* name, every item name and every item description round-trip; otherwise it
\* is one error Finding whose details list every offending item by name
C13_TextSafety ==
    metrics.exc = "none" =>
        /\ Len(subchecks[5].out.returned) = 1
        /\ subchecks[5].out.returned[1].is_valid
              <=> ~NameOffends /\ OffendingNames = {} /\ OffendingDescriptions = {}
        /\ ~subchecks[5].out.returned[1].is_valid =>
              /\ subchecks[5].out.returned[1].severity = "error"
              /\ NameOffends =>
                    Detail(CharacterName, "name") \in Range(subchecks[5].out.returned[1].details)
              /\ \A k \in OffendingNames :
                    Detail(NameOfItem(k), "name")
                        \in Range(subchecks[5].out.returned[1].details)
              /\ \A k \in OffendingDescriptions :
                    Detail(NameOfItem(k), "description")
                        \in Range(subchecks[5].out.returned[1].details)

\* the items of the converted record that count as mapped
MappedSet ==
    {k \in 1..Len(converted_data.items) :
        converted_data.items[k].stats = "source" \/ converted_data.items[k].img = "custom"}

\* C14: an item is mapped iff it has a non-null _stats.compendiumSource or an
\* img other than the default icon; mapped/total below 0.5 is a warning, 0.5
\* or more is info, no items is ratio 0 (a warning) without raising, and the
\* result is valid in every case
C14_MappingRate ==
    metrics.exc = "none" =>
        /\ subchecks[6].out.exc = "none"
        /\ Len(subchecks[6].out.returned) = 1
        /\ subchecks[6].out.returned[1].is_valid
        /\ subchecks[6].out.returned[1].severity =
             (IF Len(converted_data.items) = 0 THEN "warning"
              ELSE IF 2 * Cardinality(MappedSet) < Len(converted_data.items) THEN "warning"
              ELSE "info")

\* C14 witness: two items, exactly one of them mapped: the rate is 0.5 and
\* the result is info
C14_Witness ==
    /\ metrics.exc = "none"
    /\ Len(converted_data.items) = 2
    /\ Cardinality(MappedSet) = 1
    /\ subchecks[6].out.returned[1].severity = "info"

\* C15: the processing_time of the Metrics of a run is the time elapsed
\* between the start and the end of that run, and is never negative: in the
\* call order of validate_conversion_with_quality, and when a validator is
\* used for a second run
C15_ProcessingTime ==
    /\ [](metrics.exc = "none" => metrics.processing_time >= 0)
    /\ [][report.exc = "notcalled" /\ report'.exc = "none"
            => metrics'.processing_time = end_time' - start_time']_vars

\* C16: when each run begins with start_validation, Findings are not shared
\* between the runs of one validator: start_validation leaves the Finding
\* list empty; the Metrics of a run that began with it hold only the
\* Findings appended during that run; the issues_found of the Metrics of an
\* earlier run are changed neither by a later start_validation nor by the
\* run that follows it
C16_NoSharedFindings ==
    /\ [][StartValidation =>
            /\ validation_results' = <<>>
            /\ metrics'.issues_found = metrics.issues_found
            /\ earlier'.issues_found = earlier.issues_found]_vars
    /\ [][ValidateCharacterConversion /\ start_time # NoTime /\ ~aliased =>
            /\ metrics'.exc = "none" => metrics'.issues_found = Appended(subchecks', 1)
            /\ metrics.exc = "none" => earlier'.issues_found = metrics.issues_found]_vars

\* C16 witness: a validator was started again after a run that left Findings
\* and made a second run: the Metrics of the first run still hold the
\* Findings of the first run only, the Metrics of the second those of the second
C16_Witness ==
    /\ metrics.exc = "none" /\ earlier.exc = "none"
    /\ start_time # NoTime /\ aliased
    /\ Len(earlier.issues_found) > 0
    /\ earlier.issues_found = Appended(subchecks, 1)
    /\ metrics.issues_found = Appended(subchecks, 1)

\* the two records of TEST_CASES: no top-level level, a class.level, and
\* features whose highest level is 10
KethCase ==
    TopValue = Absent /\ ClassLevelValue = PyInt(1) /\ FeaturesValue = PyInt(10)
ValmCase ==
    TopValue = Absent /\ ClassLevelValue = PyInt(6) /\ FeaturesValue = PyInt(10)

C18_ErrorsCountAsFailed ==
    /\ metrics.exc = "none"
    /\ Len(metrics.issues_found) = Len(Appended(subchecks, 1))
    /\ \E f \in Range(metrics.issues_found) : f.severity = "error"
    => /\ metrics.failed_conversions >= 1
       /\ generate_quality_report(metrics).verdict \notin {"excellent", "good"}

====
